---- MODULE Spec2Model ----
(***************************************************************************)
(* A model of src/app.py: the ingestion / risk-scoring / join pipeline of  *)
(* the financial-aid portal and the session state its Upload tab drives.   *)
(*                                                                         *)
(* Scores are counted in hundredths: the score g stands for every double f *)
(* with double(g/100) <= f < double((g+1)/100), so every comparison of the *)
(* source against a two-decimal literal (0.3, 0.4, 0.7, ...) is exact on   *)
(* the grid.  100 is the score 1.0.                                        *)
(***************************************************************************)
EXTENDS Integers, Sequences, FiniteSets, TLC

VARIABLES
    nslds_data,     \* st.session_state.nslds_data  (None or a table)
    sis_data,       \* st.session_state.sis_data
    merged_data,    \* st.session_state.merged_data
    call            \* the last completed call: its name, arguments and result

vars == <<nslds_data, sis_data, merged_data, call>>
session == <<nslds_data, sis_data, merged_data>>

\* Python's None, for a table or an error message that is absent.
None == [none |-> TRUE]
\* str(e), the message of a caught exception
Msg(text) == [none |-> FALSE, msg |-> text]

-----------------------------------------------------------------------------
(* Bounds of the model *)

\* The random source is sampled at r/RandSteps for r < RandSteps; r = RandSteps
\* stands for the largest value random.random() returns, 1 - 2^-53.
RandSteps == 2
\* days_delinquent arguments of the scoring calls range over 0..MaxDays.
MaxDays == 200
\* Rows of an uploaded file.
MaxRows == 2
\* The numerals 0..MaxNumeral are the ones float() is asked to parse.
MaxNumeral == 400
\* Rows of a table handed to the aggregator on its own.
MaxGroupRows == 3

-----------------------------------------------------------------------------
(* Cells: what pandas holds in one position of a DataFrame *)

NaN == [kind |-> "nan", num |-> 0, str |-> ""]
Num(n) == [kind |-> "num", num |-> n, str |-> ""]
Str(s) == [kind |-> "str", num |-> 0, str |-> s]

\* pd.isna(x)
isna(x) == x.kind = "nan"

\* Series.fillna(0)
fillna0(x) == IF isna(x) THEN Num(0) ELSE x

-----------------------------------------------------------------------------
(* Risk scorer *)

RandomOutcomes == 0..RandSteps

\* Whether a + (b-a) * (1 - 2^-53) rounds to b in IEEE-754 double arithmetic,
\* for the four calls of the source:
\*   0   + 0.3*(1-2^-53)        = 0.29999999999999993  < 0.3
\*   0.3 + (0.6-0.3)*(1-2^-53)  = 0.5999999999999999   < 0.6
\*   0.6 + (0.8-0.6)*(1-2^-53)  = 0.8                  (rounds up to 0.8)
\*   0.8 + (1.0-0.8)*(1-2^-53)  = 1.0                  (rounds up to 1.0)
RoundsToUpper(a, b) == <<a, b>> \in {<<60, 80>>, <<80, 100>>}

\* random.uniform(a, b) = a + (b-a) * random.random(), at the outcome r of the
\* random source.
uniform(a, b, r) ==
    IF r = RandSteps
    THEN IF RoundsToUpper(a, b) THEN b ELSE b - 1
    ELSE a + ((b - a) * r) \div RandSteps

\* A boundary slip: `<=` where the source has `<`.
calculate_risk_score_le(days_delinquent, r) ==
    IF days_delinquent.kind = "str"
    THEN [exc |-> "'<' not supported between instances of 'str' and 'int'", val |-> 0]
    ELSE IF isna(days_delinquent) \/ days_delinquent.num <= 30
    THEN [exc |-> "", val |-> uniform(0, 30, r)]
    ELSE IF days_delinquent.num <= 90
    THEN [exc |-> "", val |-> uniform(30, 60, r)]
    ELSE IF days_delinquent.num <= 180
    THEN [exc |-> "", val |-> uniform(60, 80, r)]
    ELSE [exc |-> "", val |-> uniform(80, 100, r)]

\* calculate_risk_score(days_delinquent) at the outcome r of the random source.
\* A string argument makes `days_delinquent < 30` raise TypeError.
calculate_risk_score(days_delinquent, r) ==
    IF days_delinquent.kind = "str"
    THEN [exc |-> "'<' not supported between instances of 'str' and 'int'", val |-> 0]
    ELSE IF isna(days_delinquent) \/ days_delinquent.num < 30
    THEN [exc |-> "", val |-> uniform(0, 30, r)]
    ELSE IF days_delinquent.num < 90
    THEN [exc |-> "", val |-> uniform(30, 60, r)]
    ELSE IF days_delinquent.num < 180
    THEN [exc |-> "", val |-> uniform(60, 80, r)]
    ELSE [exc |-> "", val |-> uniform(80, 100, r)]

\* A boundary slip: `>` where the source has `>=`.
get_risk_tier_gt(score) ==
    IF score > 70 THEN "HIGH"
    ELSE IF score > 40 THEN "MEDIUM"
    ELSE "LOW"

\* get_risk_tier(score)
get_risk_tier(score) ==
    IF score >= 70 THEN "HIGH"
    ELSE IF score >= 40 THEN "MEDIUM"
    ELSE "LOW"

TierRank(t) == CASE t = "LOW" -> 0 [] t = "MEDIUM" -> 1 [] t = "HIGH" -> 2

-----------------------------------------------------------------------------
(* Uploaded files, and the tables read from them *)

\* An uploaded file: its extension, whether its bytes parse in that format, its
\* header line and its rows (each a function from the headers to cells).  A
\* cell of a file is NaN (empty), Num(n) (the numeral of n) or Str(s) (any other
\* text).  No file of the model has a header twice, nor both a source header
\* and the canonical name it is renamed to.
IsTextColumn(rows, c) == \E i \in 1..Len(rows) : rows[i][c].kind = "str"

\* pd.read_csv infers a type per column: one non-numeric cell makes the column
\* an object column and every numeral in it stays text; empty cells are NaN.
\* pd.read_excel keeps each cell's own type.  Either raises on bytes that are
\* not of the format.
read_file(file) ==
    IF ~file.valid
    THEN [exc |-> IF file.ext = "csv" THEN "Error tokenizing data"
                                       ELSE "File is not a zip file",
          df |-> None]
    ELSE IF file.ext = "csv"
    THEN [exc |-> "",
          df |-> [cols |-> file.cols,
                  rows |-> [i \in 1..Len(file.rows) |->
                              [c \in file.cols |->
                                  LET x == file.rows[i][c] IN
                                  IF x.kind = "num" /\ IsTextColumn(file.rows, c)
                                  THEN Str(ToString(x.num)) ELSE x]]]]
    ELSE [exc |-> "", df |-> [cols |-> file.cols, rows |-> file.rows]]

\* for old_name, new_name in column_mapping.items():
\*     if old_name in df.columns: df = df.rename(columns={old_name: new_name})
rename_columns(df, column_mapping) ==
    LET new(c) == IF c \in DOMAIN column_mapping THEN column_mapping[c] ELSE c
        old(d) == CHOOSE c \in df.cols : new(c) = d
    IN [cols |-> {new(c) : c \in df.cols},
        rows |-> [i \in 1..Len(df.rows) |->
                    [d \in {new(c) : c \in df.cols} |-> df.rows[i][old(d)]]]]

\* df[name] = value, a value per row, rows counted from 1
set_column(df, name, value) ==
    [cols |-> df.cols \cup {name},
     rows |-> [i \in 1..Len(df.rows) |->
                 [c \in df.cols \cup {name} |->
                     IF c = name THEN value[i] ELSE df.rows[i][c]]]]

nslds_column_mapping ==
    ("Borrower SSN" :> "ssn") @@ ("Borrower First Name" :> "first_name") @@
    ("Borrower Last Name" :> "last_name") @@ ("E-mail" :> "email") @@
    ("Days Delinquent" :> "days_delinquent") @@ ("OPB" :> "outstanding_balance") @@
    ("Loan Type" :> "loan_type")

sis_column_mapping ==
    ("Student ID" :> "student_id") @@ ("SSN" :> "ssn") @@
    ("First Name" :> "first_name") @@ ("Last Name" :> "last_name") @@
    ("Email" :> "email") @@ ("Major" :> "major") @@ ("Program" :> "program") @@
    ("GPA" :> "gpa") @@ ("Academic Standing" :> "academic_standing") @@
    ("Enrollment Status" :> "enrollment_status")

RECURSIVE ZeroPad(_, _)
\* format(n, '0<w>d') for n >= 0
ZeroPad(digits, w) == IF Len(digits) >= w THEN digits ELSE ZeroPad("0" \o digits, w)

\* f'STU{i+1000:06d}', i the 0-based row index
synth_student_id(i) == "STU" \o ZeroPad(ToString(i + 1000), 6)

\* df.get(name, 0).fillna(0): with the column absent, get returns the int 0,
\* which has no fillna.
NoFillna == "'int' object has no attribute 'fillna'"

\* The synthesized identifier of a row made to depend on the random source.
process_nslds_file_random_ids(uploaded_file, rnd) ==
    LET rd == read_file(uploaded_file) IN
    IF rd.exc # "" THEN [df |-> None, error |-> Msg(rd.exc)] ELSE
    LET df1 == rename_columns(rd.df, nslds_column_mapping)
        df2 == IF "student_id" \notin df1.cols
               THEN set_column(df1, "student_id", [i \in 1..Len(df1.rows) |-> Str(synth_student_id(i - 1 + rnd[i]))])
               ELSE df1
    IN
    IF "days_delinquent" \notin df2.cols THEN [df |-> None, error |-> Msg(NoFillna)] ELSE
    LET df3 == set_column(df2, "days_delinquent",
                          [i \in 1..Len(df2.rows) |-> fillna0(df2.rows[i]["days_delinquent"])])
    IN
    IF "outstanding_balance" \notin df3.cols THEN [df |-> None, error |-> Msg(NoFillna)] ELSE
    LET df4 == set_column(df3, "outstanding_balance",
                          [i \in 1..Len(df3.rows) |-> fillna0(df3.rows[i]["outstanding_balance"])])
        score(i) == calculate_risk_score(df4.rows[i]["days_delinquent"], rnd[i])
    IN
    IF \E i \in 1..Len(df4.rows) : score(i).exc # ""
    THEN [df |-> None,
          error |-> Msg(score(CHOOSE i \in 1..Len(df4.rows) : score(i).exc # "").exc)]
    ELSE
    LET df5 == set_column(df4, "risk_score", [i \in 1..Len(df4.rows) |-> Num(score(i).val)])
        df6 == set_column(df5, "risk_tier",
                          [i \in 1..Len(df5.rows) |-> Str(get_risk_tier(df5.rows[i]["risk_score"].num))])
    IN [df |-> df6, error |-> None]

\* process_nslds_file(uploaded_file), rnd[i] the outcome of the random source
\* at the score of row i.  Returns (df, None) or (None, str(e)).
process_nslds_file(uploaded_file, rnd) ==
    LET rd == read_file(uploaded_file) IN
    IF rd.exc # "" THEN [df |-> None, error |-> Msg(rd.exc)] ELSE
    LET df1 == rename_columns(rd.df, nslds_column_mapping)
        df2 == IF "student_id" \notin df1.cols
               THEN set_column(df1, "student_id", [i \in 1..Len(df1.rows) |-> Str(synth_student_id(i - 1))])
               ELSE df1
    IN
    IF "days_delinquent" \notin df2.cols THEN [df |-> None, error |-> Msg(NoFillna)] ELSE
    LET df3 == set_column(df2, "days_delinquent",
                          [i \in 1..Len(df2.rows) |-> fillna0(df2.rows[i]["days_delinquent"])])
    IN
    IF "outstanding_balance" \notin df3.cols THEN [df |-> None, error |-> Msg(NoFillna)] ELSE
    LET df4 == set_column(df3, "outstanding_balance",
                          [i \in 1..Len(df3.rows) |-> fillna0(df3.rows[i]["outstanding_balance"])])
        score(i) == calculate_risk_score(df4.rows[i]["days_delinquent"], rnd[i])
    IN
    IF \E i \in 1..Len(df4.rows) : score(i).exc # ""
    THEN [df |-> None,
          error |-> Msg(score(CHOOSE i \in 1..Len(df4.rows) : score(i).exc # "").exc)]
    ELSE
    LET df5 == set_column(df4, "risk_score", [i \in 1..Len(df4.rows) |-> Num(score(i).val)])
        df6 == set_column(df5, "risk_tier",
                          [i \in 1..Len(df5.rows) |-> Str(get_risk_tier(df5.rows[i]["risk_score"].num))])
    IN [df |-> df6, error |-> None]

\* process_sis_file(uploaded_file).  Returns (df, None) or (None, str(e)).
process_sis_file(uploaded_file) ==
    LET rd == read_file(uploaded_file) IN
    IF rd.exc # "" THEN [df |-> None, error |-> Msg(rd.exc)]
    ELSE [df |-> rename_columns(rd.df, sis_column_mapping), error |-> None]

\* Python's truth value of the returned error: `if error:`
Truthy(error) == error # None /\ error.msg # ""

-----------------------------------------------------------------------------
(* The scoring functions called on their own *)

Init ==
    /\ nslds_data = None
    /\ sis_data = None
    /\ merged_data = None
    /\ call = [op |-> "none"]

CallRiskScore ==
    /\ \E d \in {NaN} \cup {Num(n) : n \in (-1)..MaxDays}, r \in RandomOutcomes :
          call' = [op |-> "calculate_risk_score", days |-> d, rnd |-> r,
                   ret |-> calculate_risk_score(d, r).val]
    /\ UNCHANGED session

CallRiskTier ==
    /\ \E s \in 0..100 :
          call' = [op |-> "get_risk_tier", score |-> s, ret |-> get_risk_tier(s)]
    /\ UNCHANGED session

NextScore == CallRiskScore \/ CallRiskTier

SpecScore == Init /\ [][NextScore]_vars

-----------------------------------------------------------------------------
(* Predictive score *)

\* dict.get(key, default)
dict_get(d, key, default) == IF key \in DOMAIN d THEN d[key] ELSE default

\* Python's truth value of a cell: 0 and '' are false, NaN is true.
cell_truthy(x) ==
    CASE x.kind = "nan" -> TRUE
      [] x.kind = "num" -> x.num # 0
      [] x.kind = "str" -> x.str # ""

\* float(x): a number, NaN, or ValueError on text that is no numeral.  GPA
\* cells count hundredths of a grade point (Num(250) is 2.50).
float_of(x) ==
    IF x.kind # "str" THEN [exc |-> "", val |-> x]
    ELSE IF \E n \in 0..MaxNumeral : ToString(n) = x.str
    THEN [exc |-> "", val |-> Num(CHOOSE n \in 0..MaxNumeral : ToString(n) = x.str)]
    ELSE [exc |-> "could not convert string to float: " \o x.str, val |-> NaN]

Min(a, b) == IF a <= b THEN a ELSE b

\* The sum returned without the cap min(1.0, ...).
calculate_predictive_score_uncapped(student_data, r) ==
    LET base_risk == calculate_risk_score(dict_get(student_data, "days_delinquent", Num(0)), r)
        gpa == IF "gpa" \in DOMAIN student_data
               THEN IF cell_truthy(student_data["gpa"])
                    THEN float_of(student_data["gpa"])
                    ELSE [exc |-> "", val |-> Num(300)]
               ELSE [exc |-> "", val |-> NaN]
        \* every comparison with NaN is false
        gpa_factor == IF gpa.val.kind # "num" THEN 0
                      ELSE IF gpa.val.num < 200 THEN 30
                      ELSE IF gpa.val.num < 250 THEN 20
                      ELSE IF gpa.val.num < 300 THEN 10
                      ELSE 0
        enrollment == dict_get(student_data, "enrollment_status", None)
        enrollment_factor == IF enrollment = Str("Part-time") THEN 15
                             ELSE IF enrollment = Str("Leave of Absence") THEN 25
                             ELSE 0
        standing == dict_get(student_data, "academic_standing", None)
        standing_factor == IF standing = Str("Academic Warning") THEN 20
                           ELSE IF standing = Str("Academic Probation") THEN 30
                           ELSE 0
    IN
    IF base_risk.exc # "" THEN [exc |-> base_risk.exc, val |-> 0]
    ELSE IF gpa.exc # "" THEN [exc |-> gpa.exc, val |-> 0]
    ELSE [exc |-> "",
          val |-> base_risk.val + gpa_factor + enrollment_factor + standing_factor]

\* calculate_predictive_score(student_data) at the outcome r of the random
\* source for its own call of calculate_risk_score.
calculate_predictive_score(student_data, r) ==
    LET base_risk == calculate_risk_score(dict_get(student_data, "days_delinquent", Num(0)), r)
        gpa == IF "gpa" \in DOMAIN student_data
               THEN IF cell_truthy(student_data["gpa"])
                    THEN float_of(student_data["gpa"])
                    ELSE [exc |-> "", val |-> Num(300)]
               ELSE [exc |-> "", val |-> NaN]
        \* every comparison with NaN is false
        gpa_factor == IF gpa.val.kind # "num" THEN 0
                      ELSE IF gpa.val.num < 200 THEN 30
                      ELSE IF gpa.val.num < 250 THEN 20
                      ELSE IF gpa.val.num < 300 THEN 10
                      ELSE 0
        enrollment == dict_get(student_data, "enrollment_status", None)
        enrollment_factor == IF enrollment = Str("Part-time") THEN 15
                             ELSE IF enrollment = Str("Leave of Absence") THEN 25
                             ELSE 0
        standing == dict_get(student_data, "academic_standing", None)
        standing_factor == IF standing = Str("Academic Warning") THEN 20
                           ELSE IF standing = Str("Academic Probation") THEN 30
                           ELSE 0
    IN
    IF base_risk.exc # "" THEN [exc |-> base_risk.exc, val |-> 0]
    ELSE IF gpa.exc # "" THEN [exc |-> gpa.exc, val |-> 0]
    ELSE [exc |-> "",
          val |-> Min(100, base_risk.val + gpa_factor + enrollment_factor + standing_factor)]

-----------------------------------------------------------------------------
(* The predictive score called on its own, over a family of student records *)

\* A key the record does not have.
Absent == [kind |-> "absent", num |-> 0, str |-> ""]

\* The cells a record of the model may hold under each key the function reads;
\* a text numeral of the gpa counts hundredths as Num does ("199" is '1.99').
PredictCell ==
    [k \in {"days_delinquent", "gpa", "enrollment_status", "academic_standing"} |->
        CASE k = "days_delinquent" -> {Absent, NaN, Num(10), Num(100), Num(200)}
          [] k = "gpa" -> {Absent, NaN, Num(0), Num(150), Num(199), Num(200), Num(249),
                           Num(250), Num(299), Num(300), Num(350), Str("199"), Str("pending")}
          [] k = "enrollment_status" ->
                 {Absent, NaN, Str("Full-time"), Str("Part-time"), Str("Leave of Absence")}
          [] k = "academic_standing" ->
                 {Absent, Str("Good Standing"), Str("Academic Warning"),
                  Str("Academic Probation")}]

\* row.to_dict(): the record with the keys that are present.
student_record(full) ==
    [k \in {key \in DOMAIN full : full[key] # Absent} |-> full[k]]

StudentRecords ==
    {student_record([k \in DOMAIN PredictCell |->
                        CASE k = "days_delinquent" -> d [] k = "gpa" -> g
                          [] k = "enrollment_status" -> e [] k = "academic_standing" -> s]) :
        d \in PredictCell["days_delinquent"], g \in PredictCell["gpa"],
        e \in PredictCell["enrollment_status"], s \in PredictCell["academic_standing"]}

\* One call in a fresh session.
CallPredictiveScore ==
    /\ call.op = "none"
    /\ \E student_data \in StudentRecords, r \in RandomOutcomes :
          LET res == calculate_predictive_score(student_data, r) IN
          call' = [op |-> "calculate_predictive_score", student_data |-> student_data,
                   rnd |-> r, exc |-> res.exc, ret |-> res.val]
    /\ UNCHANGED session

NextPredict == CallPredictiveScore

SpecPredict == Init /\ [][NextPredict]_vars

-----------------------------------------------------------------------------
(* Joiner *)

\* What pandas infers of a key column: "number" for a numeric column (NaN
\* included), and for an object column "string" (text only), "mixed" (text and
\* NaN) or "mixed-integer" (text and numbers).
inferred_dtype(df, c) ==
    LET kinds == {df.rows[i][c].kind : i \in 1..Len(df.rows)} IN
    IF "str" \notin kinds THEN "number"
    ELSE IF "num" \in kinds THEN "mixed-integer"
    ELSE IF "nan" \in kinds THEN "mixed"
    ELSE "string"

\* pd.merge(left, right, on=on, how=how, suffixes=('_nslds', '_sis')) for how
\* 'inner' or 'left'.  Raises when one key column is numeric and the other
\* string-like; otherwise one row per pair of rows with equal keys, in the
\* order of the left rows and, under one left row, of the right rows ('left'
\* keeps a left row without a match, its right-hand cells NaN).  A column of
\* both tables other than the key appears twice, suffixed.
pd_merge_how(left, right, on, how) ==
    LET tl == inferred_dtype(left, on)
        tr == inferred_dtype(right, on)
        stringlike == {"string", "mixed"}
        overlap == (left.cols \cap right.cols) \ {on}
        lname(c) == IF c \in overlap THEN c \o "_nslds" ELSE c
        rname(c) == IF c \in overlap THEN c \o "_sis" ELSE c
        lcols == {lname(c) : c \in left.cols \ {on}}
        rcols == {rname(c) : c \in right.cols \ {on}}
        n == Len(left.rows)
        m == Len(right.rows)
        matches(i) == {j \in 1..m : left.rows[i][on] = right.rows[j][on]}
        \* pair <<i, j>>, j = 0 for a left row kept without a match
        pairs == SelectSeq([k \in 1..(n * (m + 1)) |->
                               <<((k - 1) \div (m + 1)) + 1, (k - 1) % (m + 1)>>],
                           LAMBDA p : IF p[2] = 0
                                      THEN how = "left" /\ matches(p[1]) = {}
                                      ELSE p[2] \in matches(p[1]))
        cell(p, c) ==
            IF c = on THEN left.rows[p[1]][on]
            ELSE IF c \in lcols
            THEN left.rows[p[1]][CHOOSE d \in left.cols \ {on} : lname(d) = c]
            ELSE IF p[2] = 0 THEN NaN
            ELSE right.rows[p[2]][CHOOSE d \in right.cols \ {on} : rname(d) = c]
    IN
    IF (tl = "number" /\ tr \in stringlike) \/ (tr = "number" /\ tl \in stringlike)
    THEN [exc |-> "You are trying to merge on object and int64 columns", df |-> None]
    ELSE [exc |-> "",
          df |-> [cols |-> {on} \cup lcols \cup rcols,
                  rows |-> [k \in 1..Len(pairs) |->
                              [c \in {on} \cup lcols \cup rcols |-> cell(pairs[k], c)]]]]

\* how='left' where the source has how='inner'.
pd_merge_left(left, right, on) == pd_merge_how(left, right, on, "left")

\* pd.merge(left, right, on=on, how='inner', suffixes=('_nslds', '_sis'))
pd_merge(left, right, on) == pd_merge_how(left, right, on, "inner")

\* The preference reversed: student_id before ssn.
join_key_sid_first(nslds_df, sis_df) ==
    IF "student_id" \in nslds_df.cols /\ "student_id" \in sis_df.cols THEN Str("student_id")
    ELSE IF "ssn" \in nslds_df.cols /\ "ssn" \in sis_df.cols THEN Str("ssn")
    ELSE None

\* The key merge_data joins on, None when the tables share neither.
join_key(nslds_df, sis_df) ==
    IF "ssn" \in nslds_df.cols /\ "ssn" \in sis_df.cols THEN Str("ssn")
    ELSE IF "student_id" \in nslds_df.cols /\ "student_id" \in sis_df.cols THEN Str("student_id")
    ELSE None

\* Whether merge_data computes the predictive columns of a joined table.
has_academics(merged) == "gpa" \in merged.cols /\ "academic_standing" \in merged.cols

\* predictive_tier taken from risk_score where the source takes it from
\* predictive_score.
merge_data_tier_of_base(nslds_df, sis_df, rnd) ==
    LET on == join_key(nslds_df, sis_df) IN
    IF on = None THEN [merged |-> None, error |-> Msg("No common identifier found")] ELSE
    LET m == pd_merge(nslds_df, sis_df, on.str) IN
    IF m.exc # "" THEN [merged |-> None, error |-> Msg(m.exc)] ELSE
    IF ~has_academics(m.df) THEN [merged |-> m.df, error |-> None] ELSE
    LET score(k) == calculate_predictive_score(m.df.rows[k], rnd[k]) IN
    IF \E k \in 1..Len(m.df.rows) : score(k).exc # ""
    THEN [merged |-> None,
          error |-> Msg(score(CHOOSE k \in 1..Len(m.df.rows) : score(k).exc # "").exc)]
    ELSE
    LET m1 == set_column(m.df, "predictive_score", [k \in 1..Len(m.df.rows) |-> Num(score(k).val)])
        m2 == set_column(m1, "predictive_tier",
                         [k \in 1..Len(m1.rows) |-> Str(get_risk_tier(m1.rows[k]["risk_score"].num))])
    IN [merged |-> m2, error |-> None]

\* merge_data(nslds_df, sis_df), rnd[k] the outcome of the random source at the
\* predictive score of merged row k.  Returns (merged, None) or (None, message).
merge_data(nslds_df, sis_df, rnd) ==
    LET on == join_key(nslds_df, sis_df) IN
    IF on = None THEN [merged |-> None, error |-> Msg("No common identifier found")] ELSE
    LET m == pd_merge(nslds_df, sis_df, on.str) IN
    IF m.exc # "" THEN [merged |-> None, error |-> Msg(m.exc)] ELSE
    IF ~has_academics(m.df) THEN [merged |-> m.df, error |-> None] ELSE
    LET score(k) == calculate_predictive_score(m.df.rows[k], rnd[k]) IN
    IF \E k \in 1..Len(m.df.rows) : score(k).exc # ""
    THEN [merged |-> None,
          error |-> Msg(score(CHOOSE k \in 1..Len(m.df.rows) : score(k).exc # "").exc)]
    ELSE
    LET m1 == set_column(m.df, "predictive_score", [k \in 1..Len(m.df.rows) |-> Num(score(k).val)])
        m2 == set_column(m1, "predictive_tier",
                         [k \in 1..Len(m1.rows) |-> Str(get_risk_tier(m1.rows[k]["predictive_score"].num))])
    IN [merged |-> m2, error |-> None]

\* How many outcomes of the random source a merge of the two tables consumes.
merge_draws(nslds_df, sis_df) ==
    LET on == join_key(nslds_df, sis_df) IN
    IF on = None THEN 0
    ELSE LET m == pd_merge(nslds_df, sis_df, on.str) IN
         IF m.exc = "" /\ has_academics(m.df) THEN Len(m.df.rows) ELSE 0

-----------------------------------------------------------------------------
(* Aggregator *)

\* round(x, 2) of the quotient num/den counted in hundredths: to the nearest
\* integer, a tie to the even one.
RoundDiv(num, den) ==
    LET q == num \div den
        twice == 2 * (num % den)
    IN IF twice < den THEN q
       ELSE IF twice > den THEN q + 1
       ELSE IF q % 2 = 0 THEN q ELSE q + 1

RECURSIVE SumOver(_, _)
SumOver(f, S) ==
    IF S = {} THEN 0
    ELSE LET x == CHOOSE y \in S : TRUE IN f[x] + SumOver(f, S \ {x})

\* The majors of the model's uploads in the order groupby sorts them.
SortedMajors == <<"Art", "Biology", "Nursing">>
MajorRank(major) == CHOOSE k \in 1..Len(SortedMajors) : SortedMajors[k] = major

Max(a, b) == IF a >= b THEN a ELSE b

\* The group's student_count taken over the whole table.
major_row_counts_all(data, major) ==
    LET members == {i \in 1..Len(data.rows) : data.rows[i]["major"] = Str(major)}
        scored == {i \in members : ~isna(data.rows[i]["risk_score"])}
        column(c) == [i \in 1..Len(data.rows) |-> data.rows[i][c].num]
        mean100(c) == RoundDiv(100 * SumOver(column(c), members), Cardinality(members))
        avg_risk == RoundDiv(SumOver(column("risk_score"), scored), Cardinality(scored))
    IN [major |-> major,
        avg_risk |-> avg_risk,
        student_count |-> Len(data.rows),
        avg_balance |-> mean100("outstanding_balance"),
        total_balance |-> 100 * SumOver(column("outstanding_balance"), members),
        avg_delinquent_days |-> mean100("days_delinquent"),
        risk_tier |-> get_risk_tier(avg_risk),
        employment_rate |-> Max(40, 90 - avg_risk)]

\* The row of one group: the means are rounded to two decimals, amounts and
\* days are then counted in hundredths.
major_row(data, major) ==
    LET members == {i \in 1..Len(data.rows) : data.rows[i]["major"] = Str(major)}
        scored == {i \in members : ~isna(data.rows[i]["risk_score"])}
        column(c) == [i \in 1..Len(data.rows) |-> data.rows[i][c].num]
        mean100(c) == RoundDiv(100 * SumOver(column(c), members), Cardinality(members))
        avg_risk == RoundDiv(SumOver(column("risk_score"), scored), Cardinality(scored))
    IN [major |-> major,
        avg_risk |-> avg_risk,
        student_count |-> Cardinality(scored),
        avg_balance |-> mean100("outstanding_balance"),
        total_balance |-> 100 * SumOver(column("outstanding_balance"), members),
        avg_delinquent_days |-> mean100("days_delinquent"),
        risk_tier |-> get_risk_tier(avg_risk),
        employment_rate |-> Max(40, 90 - avg_risk)]

\* sort_values('avg_risk', ascending=False) sorts with numpy's quicksort, which
\* is not stable: rows of equal avg_risk come out in an order the build picks
\* (a stable build keeps the order of the groups, MajorRank).  A tie order
\* ranks the groups (by their place in SortedMajors) among equals.
TieOrders ==
    {tie \in [1..Len(SortedMajors) -> 1..Len(SortedMajors)] :
        \A i, j \in 1..Len(SortedMajors) : i # j => tie[i] # tie[j]}

\* A row placed before another by the sort: the higher mean first.
sorts_before(a, b, tie) ==
    \/ a.avg_risk > b.avg_risk
    \/ a.avg_risk = b.avg_risk /\ tie[MajorRank(a.major)] < tie[MajorRank(b.major)]

\* analyze_by_major(data): None without data or without a major column, else
\* the table of one row per major sorted by descending avg_risk.  (The
\* simulated avg_salary and debt_to_income columns are left out.)
analyze_by_major(data, tie) ==
    IF data = None THEN None
    ELSE IF "major" \notin data.cols THEN None
    ELSE
    LET majors == {data.rows[i]["major"].str :
                      i \in {j \in 1..Len(data.rows) : data.rows[j]["major"].kind = "str"}}
        rows == {major_row(data, major) : major \in majors}
        place(row) == 1 + Cardinality({other \in rows : sorts_before(other, row, tie)})
    IN [cols |-> {"major", "avg_risk", "student_count", "avg_balance", "total_balance",
                  "avg_delinquent_days", "risk_tier", "employment_rate"},
        rows |-> [k \in 1..Cardinality(rows) |-> CHOOSE row \in rows : place(row) = k]]

-----------------------------------------------------------------------------
(* The aggregator called on its own, over a family of merged tables *)

\* risk_score (hundredths), outstanding_balance and days_delinquent of a merged
\* row, the score in the bucket of the days.
LoanProfiles == {<<20, 0, 10>>, <<45, 500, 45>>, <<65, 1001, 105>>, <<85, 1001, 200>>}

\* The grouping cell of a merged row: a major, or empty.
GroupCells == {Str("Art"), Str("Nursing"), NaN}

\* Rows with the three aggregated columns and the grouping column named by.
GroupRows(by, cells) ==
    {[c \in {by, "risk_score", "outstanding_balance", "days_delinquent"} |->
         CASE c = "risk_score" -> Num(p[1])
           [] c = "outstanding_balance" -> Num(p[2])
           [] c = "days_delinquent" -> Num(p[3])
           [] OTHER -> g] : p \in LoanProfiles, g \in cells}

GroupTables(by, cells, n) ==
    {[cols |-> {by, "risk_score", "outstanding_balance", "days_delinquent"}, rows |-> rs] :
        rs \in [1..n -> GroupRows(by, cells)]}

\* Tables grouped by major (at least one row has one), by program only, by
\* neither, and no table.
AggregateInputs ==
    {t \in UNION {GroupTables("major", GroupCells, n) : n \in 1..MaxGroupRows} :
        \E i \in 1..Len(t.rows) : ~isna(t.rows[i]["major"])}
        \cup GroupTables("program", {Str("Nursing")}, 1)
        \cup GroupTables("email", {NaN}, 1)
        \cup {None}

\* One call in a fresh session.
CallAnalyzeByMajor ==
    /\ call.op = "none"
    /\ \E data \in AggregateInputs, tie \in TieOrders :
          call' = [op |-> "analyze_by_major", data |-> data,
                   ret |-> analyze_by_major(data, tie)]
    /\ UNCHANGED session

NextAggregate == CallAnalyzeByMajor

SpecAggregate == Init /\ [][NextAggregate]_vars

-----------------------------------------------------------------------------
(* The tabs the script renders, top to bottom, on every run *)

HighRows(data) == {i \in 1..Len(data.rows) : data.rows[i]["risk_tier"] = Str("HIGH")}

\* Dashboard tab, rendered first: a raise here ends the run before the Upload
\* tab.  It reads risk_tier and outstanding_balance, student_id when there is
\* a predictive_score, and divides by 200 * (number of HIGH rows).
dashboard_raises(data) ==
    data # None /\
        \/ "risk_tier" \notin data.cols
        \/ "outstanding_balance" \notin data.cols
        \/ ("predictive_score" \in data.cols /\ "student_id" \notin data.cols)
        \/ HighRows(data) = {}

MediumRows(data) == {i \in 1..Len(data.rows) : data.rows[i]["risk_tier"] = Str("MEDIUM")}

\* calculate_cdr_projection(data): (current_cdr, improved_cdr, their difference),
\* each a percentage counted in hundredths.  The default rates 0.65, 0.25 and
\* 0.05 count projected_defaults in hundredths of a borrower; 0.65 * 0.4 of
\* each HIGH row is taken off for improved_defaults.
calculate_cdr_projection(data) ==
    IF data = None \/ Len(data.rows) = 0 THEN [exc |-> "", val |-> <<0, 0, 0>>]
    ELSE IF "risk_tier" \notin data.cols THEN [exc |-> "KeyError", val |-> <<0, 0, 0>>]
    ELSE
    LET total_borrowers == Len(data.rows)
        high_risk_count == Cardinality(HighRows(data))
        medium_risk_count == Cardinality(MediumRows(data))
        projected_defaults ==
            high_risk_count * 65 + medium_risk_count * 25
                + (total_borrowers - high_risk_count - medium_risk_count) * 5
        current_cdr ==
            IF total_borrowers > 0 THEN RoundDiv(projected_defaults * 100, total_borrowers) ELSE 0
        improved_defaults == projected_defaults - high_risk_count * 26
        improved_cdr ==
            IF total_borrowers > 0 THEN RoundDiv(improved_defaults * 100, total_borrowers) ELSE 0
    IN [exc |-> "", val |-> <<current_cdr, improved_cdr, current_cdr - improved_cdr>>]

\* "Financial Impact Analysis", in dollars: each HIGH row saves
\* 0.65 * 15000 * 0.4 = 3900 and costs 200; the ROI metric divides net_savings
\* by intervention_investment, and the division raises when that is 0.
financial_impact(data) ==
    LET intervention_savings == Cardinality(HighRows(data)) * 3900
        intervention_investment == Cardinality(HighRows(data)) * 200
        net_savings == intervention_savings - intervention_investment
    IN [net_savings |-> net_savings,
        intervention_investment |-> intervention_investment,
        exc |-> IF intervention_investment = 0 THEN "ZeroDivisionError" ELSE "",
        roi |-> IF intervention_investment = 0 THEN 0
                ELSE RoundDiv(net_savings * 100, intervention_investment)]

\* The body of the Dashboard tab for a held table, top to bottom: the CDR
\* projection, the metrics over risk_tier and outstanding_balance, the
\* early-warning sets over student_id when there is a predictive_score, then
\* the financial impact.  roi_evaluated tells whether the run got as far as
\* the ROI division.
dashboard(data) ==
    LET cdr == calculate_cdr_projection(data)
        stopped(exc) == [exc |-> exc, cdr_exc |-> cdr.exc, cdr |-> cdr.val,
                         roi_evaluated |-> FALSE, net_savings |-> 0,
                         intervention_investment |-> 0, roi |-> 0]
    IN IF cdr.exc # "" THEN stopped(cdr.exc)
       ELSE IF "risk_tier" \notin data.cols THEN stopped("KeyError")
       ELSE IF "outstanding_balance" \notin data.cols THEN stopped("KeyError")
       ELSE IF "predictive_score" \in data.cols /\ "student_id" \notin data.cols
       THEN stopped("KeyError")
       ELSE LET f == financial_impact(data) IN
            [exc |-> f.exc, cdr_exc |-> "", cdr |-> cdr.val, roi_evaluated |-> TRUE,
             net_savings |-> f.net_savings,
             intervention_investment |-> f.intervention_investment, roi |-> f.roi]

\* A run of the script with a merged table held renders the Dashboard tab.
DashboardTab ==
    /\ merged_data # None
    /\ call' = [op |-> "dashboard", data |-> merged_data] @@ dashboard(merged_data)
    /\ UNCHANGED session

\* Predictive Analytics tab, rendered after the Upload tab and before the
\* Program ROI tab: it plots predictive_score, and lists the early-warning
\* rows by seven columns when there are any.
predictive_tab_raises(data) ==
    data # None /\
        \/ "predictive_score" \notin data.cols
        \/ /\ \E i \in 1..Len(data.rows) :
                  /\ data.rows[i]["predictive_tier"] = Str("HIGH")
                  /\ data.rows[i]["risk_tier"] # Str("HIGH")
           /\ ~({"student_id", "first_name", "last_name", "major", "gpa",
                 "academic_standing"} \subseteq data.cols)

-----------------------------------------------------------------------------
(* The Upload tab's two ingest buttons *)

\* The outcomes of the random source at the scores of n rows.
RandomDraws(n) == [1..n -> RandomOutcomes]

\* An incremental update: the new rows are appended to a held table of the same
\* columns, where the source assigns the new table.
ProcessNsldsButton_appends(nslds_file, rnd) ==
    LET r == process_nslds_file(nslds_file, rnd) IN
    /\ call' = [op |-> "process_nslds_file", file |-> nslds_file, rnd |-> rnd,
                df |-> r.df, error |-> r.error]
    /\ IF Truthy(r.error)
       THEN UNCHANGED session
       ELSE /\ nslds_data' = IF nslds_data # None /\ nslds_data.cols = r.df.cols
                             THEN [cols |-> r.df.cols, rows |-> nslds_data.rows \o r.df.rows]
                             ELSE r.df
            /\ UNCHANGED <<sis_data, merged_data>>

\* "Process NSLDS File": the table is stored unless an error came back.
ProcessNsldsButton(nslds_file, rnd) ==
    LET r == process_nslds_file(nslds_file, rnd) IN
    /\ call' = [op |-> "process_nslds_file", file |-> nslds_file, rnd |-> rnd,
                df |-> r.df, error |-> r.error]
    /\ IF Truthy(r.error)
       THEN UNCHANGED session
       ELSE nslds_data' = r.df /\ UNCHANGED <<sis_data, merged_data>>

\* "Process SIS File"
ProcessSisButton(sis_file) ==
    LET r == process_sis_file(sis_file) IN
    /\ call' = [op |-> "process_sis_file", file |-> sis_file,
                df |-> r.df, error |-> r.error]
    /\ IF Truthy(r.error)
       THEN UNCHANGED session
       ELSE sis_data' = r.df /\ UNCHANGED <<nslds_data, merged_data>>

\* A join done in place: the joined table also takes the place of the loan
\* table it was computed from.
MergeButton_in_place(rnd) ==
    /\ nslds_data # None /\ sis_data # None
    /\ LET r == merge_data(nslds_data, sis_data, rnd) IN
       /\ call' = [op |-> "merge_data", nslds |-> nslds_data, sis |-> sis_data,
                   rnd |-> rnd, merged |-> r.merged, error |-> r.error]
       /\ IF Truthy(r.error)
          THEN UNCHANGED session
          ELSE merged_data' = r.merged /\ nslds_data' = r.merged /\ UNCHANGED sis_data

\* The handler without its `if error:` test: whatever came back is stored.
MergeButton_stores_always(rnd) ==
    /\ nslds_data # None /\ sis_data # None
    /\ LET r == merge_data(nslds_data, sis_data, rnd) IN
       /\ call' = [op |-> "merge_data", nslds |-> nslds_data, sis |-> sis_data,
                   rnd |-> rnd, merged |-> r.merged, error |-> r.error]
       /\ merged_data' = r.merged /\ UNCHANGED <<nslds_data, sis_data>>

\* "Process with Predictive Analytics", shown once both tables are held.
MergeButton(rnd) ==
    /\ nslds_data # None /\ sis_data # None
    /\ LET r == merge_data(nslds_data, sis_data, rnd) IN
       /\ call' = [op |-> "merge_data", nslds |-> nslds_data, sis |-> sis_data,
                   rnd |-> rnd, merged |-> r.merged, error |-> r.error]
       /\ IF Truthy(r.error)
          THEN UNCHANGED session
          ELSE merged_data' = r.merged /\ UNCHANGED <<nslds_data, sis_data>>

-----------------------------------------------------------------------------
(* One ingestion into a fresh session, over a family of uploads *)

Extensions == {"csv", "xlsx"}

\* A file whose bytes are not of its declared format.
BadFile(ext) == [ext |-> ext, valid |-> FALSE, cols |-> {}, rows |-> <<>>]

\* Cells of the two numeric columns of an NSLDS upload: empty, negative, a
\* number of the third bucket, text.
DaysCells == {NaN, Num(-5), Num(100), Str("unknown")}
BalanceCells == {NaN, Num(500)}

\* The cell every row has under any other header.
FixedCell(h) ==
    CASE h = "Borrower SSN" -> Num(111)
      [] h = "SSN" -> Num(111)
      [] h = "student_id" -> Str("A17")
      [] h = "Student ID" -> Num(4242)
      [] h = "Major" -> Str("Art")
      [] h = "GPA" -> Num(300)
      [] OTHER -> NaN

IngestRows(H) ==
    {[h \in H |-> CASE h = "Days Delinquent" -> dd
                    [] h = "OPB" -> opb
                    [] OTHER -> FixedCell(h)] :
        dd \in (IF "Days Delinquent" \in H THEN DaysCells ELSE {NaN}),
        opb \in (IF "OPB" \in H THEN BalanceCells ELSE {NaN})}

FilesOver(H, rowset) ==
    UNION {{[ext |-> e, valid |-> TRUE, cols |-> H, rows |-> rs] :
               e \in Extensions, rs \in [1..n -> rowset]} : n \in 1..MaxRows}

NsldsHeaderSets ==
    {K \cup A : K \in {{"Borrower SSN"}, {"student_id"}, {"Student ID"}},
                A \in SUBSET {"Days Delinquent", "OPB"}}

SisHeaderSets ==
    {K \cup A : K \in {{}, {"Student ID"}, {"student_id"}, {"SSN"}, {"Student ID", "SSN"}},
                A \in SUBSET {"Major", "GPA"}}

NsldsUploads ==
    {BadFile(e) : e \in Extensions}
        \cup UNION {FilesOver(H, IngestRows(H)) : H \in NsldsHeaderSets}

SisUploads ==
    {BadFile(e) : e \in Extensions}
        \cup UNION {FilesOver(H, IngestRows(H)) : H \in SisHeaderSets}

IngestNslds ==
    /\ call.op = "none"
    /\ \E f \in NsldsUploads : \E rnd \in RandomDraws(Len(f.rows)) :
          ProcessNsldsButton(f, rnd)

IngestSis ==
    /\ call.op = "none"
    /\ \E f \in SisUploads : ProcessSisButton(f)

NextIngest == IngestNslds \/ IngestSis

SpecIngest == Init /\ [][NextIngest]_vars

-----------------------------------------------------------------------------
(* One merge of two ingested tables, over three families of uploads *)

\* The headers the uploads of the model are built from.
Headers == DOMAIN nslds_column_mapping \cup DOMAIN sis_column_mapping \cup {"student_id"}

\* The rows over headers H whose cell under h is drawn from Dom[h].
RowsOver(H, Dom) ==
    {r \in [H -> UNION {Dom[h] : h \in H}] : \A h \in H : r[h] \in Dom[h]}

CsvFiles(H, rowset) ==
    UNION {{[ext |-> "csv", valid |-> TRUE, cols |-> H, rows |-> rs] :
               rs \in [1..n -> rowset]} : n \in 1..MaxRows}

\* The same outcome of the random source at every row.
ConstantDraws(n, outcomes) == {[i \in 1..n |-> r] : r \in outcomes}

NsldsTables(files, outcomes) ==
    UNION {{process_nslds_file(f, rnd).df : rnd \in ConstantDraws(Len(f.rows), outcomes)} :
              f \in files}

SisTables(files) == {process_sis_file(f).df : f \in files}

\* Keys: which key columns each side has, and which key each row holds.
KeyCell ==
    [h \in Headers |->
        CASE h = "Borrower SSN" -> {Num(111), Num(222)}
          [] h = "student_id" -> {Str("STU001000"), Str("B2")}
          [] h = "SSN" -> {Num(222), Num(333), Str("222-00")}
          [] h = "Student ID" -> {Str("STU001000"), Num(1001)}
          [] h = "Days Delinquent" -> {Num(100)}
          [] h = "OPB" -> {Num(500)}
          [] OTHER -> {FixedCell(h)}]

KeyNsldsFiles ==
    UNION {CsvFiles(K \cup {"Days Delinquent", "OPB"},
                    RowsOver(K \cup {"Days Delinquent", "OPB"}, KeyCell)) :
              K \in SUBSET {"Borrower SSN", "student_id"}}

KeySisFiles ==
    UNION {CsvFiles(K \cup {"Major"}, RowsOver(K \cup {"Major"}, KeyCell)) :
              K \in SUBSET {"SSN", "Student ID"}}

\* Names: a first-name column on either side, present or empty.
NameCell ==
    [h \in Headers |->
        CASE h = "Borrower First Name" -> {NaN, Str("Ann")}
          [] h = "First Name" -> {NaN, Str("Anna")}
          [] h = "Borrower SSN" -> {Num(222)}
          [] h = "SSN" -> {Num(222)}
          [] h = "Days Delinquent" -> {Num(100)}
          [] h = "OPB" -> {Num(500)}
          [] OTHER -> {FixedCell(h)}]

NameNsldsFiles ==
    UNION {CsvFiles(A \cup {"Borrower SSN", "Days Delinquent", "OPB"},
                    RowsOver(A \cup {"Borrower SSN", "Days Delinquent", "OPB"}, NameCell)) :
              A \in SUBSET {"Borrower First Name"}}

NameSisFiles ==
    UNION {CsvFiles(A \cup {"SSN"}, RowsOver(A \cup {"SSN"}, NameCell)) :
              A \in SUBSET {"First Name"}}

\* Academics: one student record with the attributes of the predictive score.
AcademicCell ==
    [h \in Headers |->
        CASE h = "GPA" -> {NaN, Num(0), Num(190), Num(250), Str("pending")}
          [] h = "Academic Standing" -> {Str("Good Standing"), Str("Academic Probation")}
          [] h = "Enrollment Status" -> {Str("Part-time")}
          [] h = "Borrower SSN" -> {Num(222)}
          [] h = "SSN" -> {Num(222)}
          [] h = "Days Delinquent" -> {Num(10), Num(100)}
          [] h = "OPB" -> {Num(500)}
          [] OTHER -> {FixedCell(h)}]

AcademicNsldsFiles ==
    CsvFiles({"Borrower SSN", "Days Delinquent", "OPB"},
             RowsOver({"Borrower SSN", "Days Delinquent", "OPB"}, AcademicCell))

AcademicSisFiles ==
    UNION {{[ext |-> "csv", valid |-> TRUE, rows |-> <<row>>,
             cols |-> A \cup {"SSN", "GPA", "Academic Standing", "Major"}] :
               row \in RowsOver(A \cup {"SSN", "GPA", "Academic Standing", "Major"}, AcademicCell)} :
              A \in SUBSET {"Enrollment Status"}}

MergeCases ==
    (NsldsTables(KeyNsldsFiles, {0}) \X SisTables(KeySisFiles))
        \cup (NsldsTables(NameNsldsFiles, {0}) \X SisTables(NameSisFiles))
        \cup (NsldsTables(AcademicNsldsFiles, RandomOutcomes) \X SisTables(AcademicSisFiles))

InitMerge ==
    /\ \E case \in MergeCases : nslds_data = case[1] /\ sis_data = case[2]
    /\ merged_data = None
    /\ call = [op |-> "none"]

MergeOnce ==
    /\ call.op = "none"
    /\ \E rnd \in RandomDraws(merge_draws(nslds_data, sis_data)) : MergeButton(rnd)

NextMerge == MergeOnce

SpecMerge == InitMerge /\ [][NextMerge]_vars

-----------------------------------------------------------------------------
(* One merge, and the Dashboard tab of the runs that follow it *)

\* Tiers: loans of every delinquency bucket, matched by none, one or several
\* student records.
TierCell ==
    [h \in Headers |->
        CASE h = "Borrower SSN" -> {Num(111), Num(222)}
          [] h = "SSN" -> {Num(111), Num(222), Num(333)}
          [] h = "Days Delinquent" -> {Num(10), Num(100), Num(200)}
          [] h = "OPB" -> {Num(500)}
          [] OTHER -> {FixedCell(h)}]

TierNsldsFiles ==
    CsvFiles({"Borrower SSN", "Days Delinquent", "OPB"},
             RowsOver({"Borrower SSN", "Days Delinquent", "OPB"}, TierCell))

TierSisFiles == CsvFiles({"SSN", "Major"}, RowsOver({"SSN", "Major"}, TierCell))

DashboardCases ==
    MergeCases \cup (NsldsTables(TierNsldsFiles, RandomOutcomes) \X SisTables(TierSisFiles))

InitDashboard ==
    /\ \E case \in DashboardCases : nslds_data = case[1] /\ sis_data = case[2]
    /\ merged_data = None
    /\ call = [op |-> "none"]

NextDashboard == MergeOnce \/ DashboardTab

SpecDashboard == InitDashboard /\ [][NextDashboard]_vars

-----------------------------------------------------------------------------
(* A session: uploads, merges and the Program ROI tab, in any order *)

\* Program ROI tab: the aggregation of the merged table, when there is one.
ProgramRoiTab ==
    /\ merged_data # None
    /\ \E tie \in TieOrders :
          call' = [op |-> "analyze_by_major", data |-> merged_data,
                   ret |-> analyze_by_major(merged_data, tie)]
    /\ UNCHANGED session

SessionFile(H, rows) == [ext |-> "csv", valid |-> TRUE, cols |-> H, rows |-> rows]

NsldsTwoLoans ==
    SessionFile({"Borrower SSN", "Days Delinquent", "OPB"},
        << [h \in {"Borrower SSN", "Days Delinquent", "OPB"} |->
               CASE h = "Borrower SSN" -> Num(111) [] h = "Days Delinquent" -> Num(100)
                 [] h = "OPB" -> Num(500)],
           [h \in {"Borrower SSN", "Days Delinquent", "OPB"} |->
               CASE h = "Borrower SSN" -> Num(222) [] h = "Days Delinquent" -> Num(100)
                 [] h = "OPB" -> NaN] >>)

NsldsOneLoan ==
    SessionFile({"Borrower SSN", "Days Delinquent", "OPB"},
        << [h \in {"Borrower SSN", "Days Delinquent", "OPB"} |->
               CASE h = "Borrower SSN" -> Num(222) [] h = "Days Delinquent" -> Num(200)
                 [] h = "OPB" -> Num(900)] >>)

NsldsTextDays ==
    SessionFile({"Borrower SSN", "Days Delinquent", "OPB"},
        << [h \in {"Borrower SSN", "Days Delinquent", "OPB"} |->
               CASE h = "Borrower SSN" -> Num(222) [] h = "Days Delinquent" -> Str("unknown")
                 [] h = "OPB" -> Num(900)] >>)

NsldsNoBalance ==
    SessionFile({"Borrower SSN", "Days Delinquent"},
        << [h \in {"Borrower SSN", "Days Delinquent"} |->
               CASE h = "Borrower SSN" -> Num(222) [] h = "Days Delinquent" -> Num(200)] >>)

SisAcademicHeaders ==
    {"SSN", "First Name", "Last Name", "Major", "GPA", "Academic Standing", "Enrollment Status"}

SisAcademic ==
    SessionFile(SisAcademicHeaders,
        << [h \in SisAcademicHeaders |->
               CASE h = "SSN" -> Num(222) [] h = "First Name" -> Str("Ann")
                 [] h = "Last Name" -> Str("Lee") [] h = "Major" -> Str("Nursing")
                 [] h = "GPA" -> Num(190) [] h = "Academic Standing" -> Str("Academic Warning")
                 [] h = "Enrollment Status" -> Str("Part-time")],
           [h \in SisAcademicHeaders |->
               CASE h = "SSN" -> Num(111) [] h = "First Name" -> Str("Bo")
                 [] h = "Last Name" -> Str("Diaz") [] h = "Major" -> Str("Art")
                 [] h = "GPA" -> Num(350) [] h = "Academic Standing" -> Str("Good Standing")
                 [] h = "Enrollment Status" -> Str("Full-time")] >>)

SisByStudentId ==
    SessionFile({"Student ID", "Major"},
        << [h \in {"Student ID", "Major"} |->
               CASE h = "Student ID" -> Str("STU001000") [] h = "Major" -> Str("Biology")] >>)

SisNoKey ==
    SessionFile({"Major"}, << [h \in {"Major"} |-> Str("Art")] >>)

SessionNsldsUploads ==
    {NsldsTwoLoans, NsldsOneLoan, NsldsTextDays, NsldsNoBalance, BadFile("csv")}

SessionSisUploads == {SisAcademic, SisByStudentId, SisNoKey, BadFile("xlsx")}

\* In a session the random source is sampled at its two ends.
SessionDraws(n) == [1..n -> {0, RandSteps}]

\* A run of the script reaches the Upload tab unless the Dashboard tab raised.
ReachesUploadTab == ~dashboard_raises(merged_data)

\* ... and the Program ROI tab unless the Predictive Analytics tab raised too.
ReachesProgramRoiTab == ReachesUploadTab /\ ~predictive_tab_raises(merged_data)

SessionProcessNslds ==
    /\ ReachesUploadTab
    /\ \E f \in SessionNsldsUploads : \E rnd \in SessionDraws(Len(f.rows)) :
          ProcessNsldsButton(f, rnd)

SessionProcessSis ==
    /\ ReachesUploadTab
    /\ \E f \in SessionSisUploads : ProcessSisButton(f)

SessionMerge ==
    /\ ReachesUploadTab
    /\ nslds_data # None /\ sis_data # None
    /\ \E rnd \in SessionDraws(merge_draws(nslds_data, sis_data)) : MergeButton(rnd)

SessionProgramRoi ==
    /\ ReachesProgramRoiTab
    /\ ProgramRoiTab

Next == SessionProcessNslds \/ SessionProcessSis \/ SessionMerge \/ SessionProgramRoi

Spec == Init /\ [][Next]_vars

-----------------------------------------------------------------------------
(* One file ingested twice, each run with its own outcomes of the random source *)

\* One-row uploads over every header set, a malformed file, and a two-row file.
RepeatUploads ==
    {BadFile(e) : e \in Extensions}
        \cup UNION {{[ext |-> e, valid |-> TRUE, cols |-> H, rows |-> <<row>>] :
                        e \in Extensions, row \in IngestRows(H)} : H \in NsldsHeaderSets}
        \cup {NsldsTwoLoans}

\* process_nslds_file(f) run twice on the content of one file.
IngestTwice ==
    /\ call.op = "none"
    /\ \E f \in RepeatUploads : \E rnd1, rnd2 \in RandomDraws(Len(f.rows)) :
          call' = [op |-> "process_nslds_file twice", file |-> f,
                   first |-> process_nslds_file(f, rnd1),
                   second |-> process_nslds_file(f, rnd2)]
    /\ UNCHANGED session

NextRepeat == IngestTwice

SpecRepeat == Init /\ [][NextRepeat]_vars

-----------------------------------------------------------------------------
(* Properties of the scoring functions, under SpecScore *)

IsScoreCall == call.op = "calculate_risk_score"
ScoreDays == call.days.num

\* C1 as stated: the score of every days_delinquent value lies in its bucket's
\* range, the upper end of the first three ranges excluded:
\* d < 30 in [0, 0.3), [30, 90) in [0.3, 0.6), [90, 180) in [0.6, 0.8),
\* d >= 180 in [0.8, 1.0].
C1_HalfOpenBuckets ==
    (IsScoreCall /\ ~isna(call.days)) =>
        /\ ScoreDays < 30 => (0 <= call.ret /\ call.ret < 30)
        /\ (30 <= ScoreDays /\ ScoreDays < 90) => (30 <= call.ret /\ call.ret < 60)
        /\ (90 <= ScoreDays /\ ScoreDays < 180) => (60 <= call.ret /\ call.ret < 80)
        /\ ScoreDays >= 180 => (80 <= call.ret /\ call.ret <= 100)

\* C1 amended: as C1, except that the range of 90 <= d < 180 is the closed
\* [0.6, 0.8]: the largest outcome of the random source rounds up to 0.8.
\* The upper ends 0.3 and 0.6 of the first two ranges are excluded.
C1_BucketRanges ==
    (IsScoreCall /\ ~isna(call.days)) =>
        /\ ScoreDays < 30 => (0 <= call.ret /\ call.ret < 30)
        /\ (30 <= ScoreDays /\ ScoreDays < 90) => (30 <= call.ret /\ call.ret < 60)
        /\ (90 <= ScoreDays /\ ScoreDays < 180) => (60 <= call.ret /\ call.ret <= 80)
        /\ ScoreDays >= 180 => (80 <= call.ret /\ call.ret <= 100)

\* The third bucket scored at the largest outcome of the random source.
C1_Witness ==
    /\ IsScoreCall
    /\ call.days = Num(179)
    /\ call.rnd = RandSteps
    /\ call.ret = 80

\* C2: get_risk_tier is the step function with breakpoints 0.4 and 0.7
\* (HIGH iff s >= 0.7, MEDIUM iff 0.4 <= s < 0.7, LOW iff s < 0.4), and it is
\* monotonic: no lower score gets a higher tier.
C2_StepFunction ==
    call.op = "get_risk_tier" =>
        /\ call.ret = "HIGH" <=> call.score >= 70
        /\ call.ret = "MEDIUM" <=> (40 <= call.score /\ call.score < 70)
        /\ call.ret = "LOW" <=> call.score < 40
        /\ \A s1 \in 0..call.score :
              TierRank(get_risk_tier(s1)) <= TierRank(call.ret)

\* The breakpoint 0.70 itself is HIGH.
C2_Witness ==
    /\ call.op = "get_risk_tier"
    /\ call.score = 70
    /\ call.ret = "HIGH"

-----------------------------------------------------------------------------
(* Properties of one ingestion, under SpecIngest *)

IsNsldsCall == call.op = "process_nslds_file"
IsSisCall == call.op = "process_sis_file"
Succeeded == call.error = None /\ call.df # None
FileRowIds == 1..Len(call.file.rows)
HasText(h) == h \in call.file.cols /\ \E i \in FileRowIds : call.file.rows[i][h].kind = "str"

\* C7: an NSLDS file whose `Days Delinquent` column holds a non-numeric value
\* (and that has its `OPB` column) is ingested without an error, and each row
\* with such a value has days_delinquent = 0 and a score of the lowest bucket.
C7_NonNumericBecomesZero ==
    (IsNsldsCall /\ call.file.valid /\ "OPB" \in call.file.cols /\ HasText("Days Delinquent")) =>
        /\ Succeeded
        /\ \A i \in FileRowIds :
              call.file.rows[i]["Days Delinquent"].kind = "str" =>
                  /\ call.df.rows[i]["days_delinquent"] = Num(0)
                  /\ call.df.rows[i]["risk_score"].num < 30

\* C8: an NSLDS file with numeric or empty cells is ingested without an error
\* whether or not it has a `Days Delinquent` / `OPB` column, and every row has
\* days_delinquent and outstanding_balance, 0 where the cell was empty or the
\* column absent.
C8_AbsentDefaultsToZero ==
    (IsNsldsCall /\ call.file.valid /\ ~HasText("Days Delinquent") /\ ~HasText("OPB")) =>
        /\ Succeeded
        /\ \A i \in FileRowIds :
              LET src(h) == IF h \in call.file.cols THEN call.file.rows[i][h] ELSE NaN IN
              /\ isna(src("Days Delinquent")) => call.df.rows[i]["days_delinquent"] = Num(0)
              /\ isna(src("OPB")) => call.df.rows[i]["outstanding_balance"] = Num(0)
              /\ ~isna(src("Days Delinquent")) =>
                    call.df.rows[i]["days_delinquent"] = src("Days Delinquent")
              /\ ~isna(src("OPB")) =>
                    call.df.rows[i]["outstanding_balance"] = src("OPB")

\* C9: a successfully ingested file (NSLDS or SIS) with neither a `student_id`
\* nor a `Student ID` column gets the identifiers STU001000, STU001001, ... in
\* row order, pairwise distinct; a file with one of the two columns keeps its
\* own identifiers as student_id.
C9_SynthesizedIds ==
    ((IsNsldsCall \/ IsSisCall) /\ Succeeded) =>
        /\ "student_id" \in call.df.cols
        /\ IF "student_id" \notin call.file.cols /\ "Student ID" \notin call.file.cols
           THEN /\ \A i \in FileRowIds :
                      call.df.rows[i]["student_id"] = Str(synth_student_id(i - 1))
                /\ \A i, j \in FileRowIds :
                      i # j => call.df.rows[i]["student_id"] # call.df.rows[j]["student_id"]
                /\ call.df.rows[1]["student_id"] = Str("STU001000")
           ELSE \A i \in FileRowIds :
                   call.df.rows[i]["student_id"] =
                       call.file.rows[i][IF "student_id" \in call.file.cols
                                         THEN "student_id" ELSE "Student ID"]

-----------------------------------------------------------------------------
(* Properties of one merge, under SpecMerge *)

IsMergeCall == call.op = "merge_data"
BothHave(c) == c \in call.nslds.cols /\ c \in call.sis.cols
NoCommonKey == Msg("No common identifier found")

\* The joined table without the predictive columns.
JoinedPart ==
    LET cols == call.merged.cols \ {"predictive_score", "predictive_tier"} IN
    [cols |-> cols,
     rows |-> [k \in 1..Len(call.merged.rows) |-> [c \in cols |-> call.merged.rows[k][c]]]]

\* The merge returned the join of its two arguments on key.
JoinedOn(key) ==
    /\ call.error = None
    /\ call.merged # None
    /\ key \in call.merged.cols
    /\ JoinedPart = pd_merge(call.nslds, call.sis, key).df

\* One key column is numeric and the other text.
KeyKindsDiffer(key) ==
    LET text(df) == \E i \in 1..Len(df.rows) : df.rows[i][key].kind = "str" IN
    text(call.nslds) # text(call.sis)

\* A GPA cell that float() cannot parse meets the predictive scoring.
UnparsableGpa ==
    /\ "gpa" \in call.sis.cols /\ "academic_standing" \in call.sis.cols
    /\ \E j \in 1..Len(call.sis.rows) :
          /\ call.sis.rows[j]["gpa"].kind = "str"
          /\ \A n \in 0..MaxNumeral : ToString(n) # call.sis.rows[j]["gpa"].str
          /\ \E i \in 1..Len(call.nslds.rows) :
                \E key \in {"ssn", "student_id"} :
                    /\ join_key(call.nslds, call.sis) = Str(key)
                    /\ call.nslds.rows[i][key] = call.sis.rows[j][key]

Raised(key) ==
    /\ call.merged = None
    /\ call.error # None
    /\ call.error # NoCommonKey
    /\ KeyKindsDiffer(key) \/ UnparsableGpa

\* C4 as stated: merge_data joins on ssn whenever both tables have an ssn
\* column, otherwise on student_id when both have one, and otherwise returns no
\* table and 'No common identifier found'; that outcome occurs exactly when the
\* tables share neither column.
C4_AlwaysJoins ==
    IsMergeCall =>
        /\ BothHave("ssn") => JoinedOn("ssn")
        /\ (~BothHave("ssn") /\ BothHave("student_id")) => JoinedOn("student_id")
        /\ (~BothHave("ssn") /\ ~BothHave("student_id")) =>
              (call.merged = None /\ call.error = NoCommonKey)
        /\ call.error = NoCommonKey => (~BothHave("ssn") /\ ~BothHave("student_id"))

\* C4 amended: the key is ssn whenever both tables have an ssn column, otherwise
\* student_id when both have one; merge_data returns the join on that key unless
\* the join or the predictive scoring raises (key columns of different kinds,
\* a GPA that is no number), and then it returns no table and the exception's
\* message without trying the other key.  'No common identifier found' is
\* returned exactly when the tables share neither column.
C4_KeyPreference ==
    IsMergeCall =>
        /\ BothHave("ssn") =>
              IF KeyKindsDiffer("ssn") \/ UnparsableGpa
              THEN Raised("ssn") ELSE JoinedOn("ssn")
        /\ (~BothHave("ssn") /\ BothHave("student_id")) =>
              IF KeyKindsDiffer("student_id") \/ UnparsableGpa
              THEN Raised("student_id") ELSE JoinedOn("student_id")
        /\ (~BothHave("ssn") /\ ~BothHave("student_id")) =>
              (call.merged = None /\ call.error = NoCommonKey)
        /\ call.error = NoCommonKey => (~BothHave("ssn") /\ ~BothHave("student_id"))

\* Both tables have both key columns, and the merge joined on ssn.
C4_Witness ==
    /\ IsMergeCall
    /\ BothHave("ssn") /\ BothHave("student_id")
    /\ JoinedOn("ssn")
    /\ Len(call.merged.rows) >= 1
    /\ "student_id_nslds" \in call.merged.cols

KeyValues(df, key) == {df.rows[i][key] : i \in 1..Len(df.rows)}
UsedKey == join_key(call.nslds, call.sis).str

MatchPairs(key) ==
    LET n == Len(call.nslds.rows)
        m == Len(call.sis.rows)
    IN SelectSeq([k \in 1..(n * m) |-> <<((k - 1) \div m) + 1, ((k - 1) % m) + 1>>],
                 LAMBDA p : call.nslds.rows[p[1]][key] = call.sis.rows[p[2]][key])

\* C6: when both tables have a first_name column, every row of a successful
\* merge has one first_name: the NSLDS value when present, the SIS value only
\* when the NSLDS value is missing.
C6_Reconciled ==
    (IsMergeCall /\ call.error = None /\ BothHave("first_name")) =>
        /\ "first_name" \in call.merged.cols
        /\ \A k \in 1..Len(call.merged.rows) :
              LET p == MatchPairs(UsedKey)[k]
                  primary == call.nslds.rows[p[1]]["first_name"]
                  secondary == call.sis.rows[p[2]]["first_name"]
              IN call.merged.rows[k]["first_name"]
                     = IF isna(primary) THEN secondary ELSE primary

-----------------------------------------------------------------------------
(* Properties of a session, under Spec *)

TiersFollow(table, score, tier) ==
    (table # None /\ score \in table.cols /\ tier \in table.cols) =>
        \A i \in 1..Len(table.rows) :
            table.rows[i][tier] = Str(get_risk_tier(table.rows[i][score].num))

\* The last call was analyze_by_major and it returned a table.
HasAggregate ==
    call.op = "analyze_by_major" /\ call.data # None /\ "major" \in call.data.cols

\* C3: in every state of a session each tier is the step function of the score
\* beside it: risk_tier of risk_score in every row of nslds_data and of
\* merged_data, predictive_tier of predictive_score in every merged row that
\* has one, and risk_tier of avg_risk in every row of the program aggregate.
C3_TiersFollowScores ==
    /\ nslds_data # None => {"risk_score", "risk_tier"} \subseteq nslds_data.cols
    /\ TiersFollow(nslds_data, "risk_score", "risk_tier")
    /\ TiersFollow(merged_data, "risk_score", "risk_tier")
    /\ TiersFollow(merged_data, "predictive_score", "predictive_tier")
    /\ (merged_data # None /\ "predictive_score" \in merged_data.cols)
           => "predictive_tier" \in merged_data.cols
    /\ HasAggregate =>
           \A k \in 1..Len(call.ret.rows) :
               call.ret.rows[k].risk_tier = get_risk_tier(call.ret.rows[k].avg_risk)

\* An aggregate of a merged table in which some row's predictive tier is not
\* its risk tier.
C3_Witness ==
    /\ HasAggregate
    /\ Len(call.ret.rows) >= 2
    /\ "predictive_tier" \in merged_data.cols
    /\ \E i \in 1..Len(merged_data.rows) :
          merged_data.rows[i]["predictive_tier"] # merged_data.rows[i]["risk_tier"]

\* C10: a step in which process_nslds_file, process_sis_file or merge_data
\* returns an error changes none of nslds_data, sis_data and merged_data.
C10_FailureLeavesTables ==
    [][(/\ call'.op \in {"process_nslds_file", "process_sis_file", "merge_data"}
        /\ call'.error # None)
           => UNCHANGED session]_vars

\* A merge fails for want of a common identifier while both ingested tables
\* and an earlier merged table are held.
C10_Witness ==
    /\ call.op = "merge_data"
    /\ call.error = Msg("No common identifier found")
    /\ nslds_data # None /\ sis_data # None /\ merged_data # None
    /\ call.nslds = nslds_data /\ call.sis = sis_data

\* C11: a successful ingestion leaves exactly the table made from the newly
\* ingested file in nslds_data (resp. sis_data), and a successful merge leaves
\* exactly the join of the two tables held at that moment in merged_data;
\* nothing of the table's previous version is kept.
C11_RerunReplaces ==
    [][/\ (call'.op = "process_nslds_file" /\ call'.error = None) =>
              nslds_data' = process_nslds_file(call'.file, call'.rnd).df
       /\ (call'.op = "process_sis_file" /\ call'.error = None) =>
              sis_data' = process_sis_file(call'.file).df
       /\ (call'.op = "merge_data" /\ call'.error = None) =>
              merged_data' = merge_data(nslds_data, sis_data, call'.rnd).merged]_vars

\* A one-row loan file has just been ingested in a session that had merged a
\* two-row loan table before: the held loan table is the new one alone.
C11_Witness ==
    /\ call.op = "process_nslds_file"
    /\ call.error = None
    /\ merged_data # None
    /\ Len(merged_data.rows) = 2
    /\ Len(nslds_data.rows) = 1
    /\ nslds_data = call.df

\* C12: a merge, successful or failed, changes neither nslds_data nor sis_data
\* (the predictive columns are added to the merged table only), and an
\* aggregation changes none of the session tables.
C12_InputsUntouched ==
    [][/\ call'.op = "merge_data" => UNCHANGED <<nslds_data, sis_data>>
       /\ call'.op = "analyze_by_major" => UNCHANGED session]_vars

\* A merge has added the predictive columns to its result and the loan table it
\* read has none of them.
C12_Witness ==
    /\ call.op = "merge_data"
    /\ call.error = None
    /\ "predictive_score" \in merged_data.cols
    /\ merged_data = call.merged
    /\ nslds_data = call.nslds /\ sis_data = call.sis
    /\ {"predictive_score", "predictive_tier"} \cap nslds_data.cols = {}
    /\ {"predictive_score", "predictive_tier"} \cap sis_data.cols = {}

-----------------------------------------------------------------------------
(* Properties of one ingestion, under SpecIngest: value ranges *)

\* C13: every row of a table returned by a successful ingestion has
\* days_delinquent >= 0 and outstanding_balance >= 0, whatever the cells of the
\* file hold.
C13_NonNegative ==
    (IsNsldsCall /\ Succeeded) =>
        \A i \in 1..Len(call.df.rows) :
            /\ call.df.rows[i]["days_delinquent"].num >= 0
            /\ call.df.rows[i]["outstanding_balance"].num >= 0

-----------------------------------------------------------------------------
(* Properties of a session, under Spec: value ranges *)

ScoresWithin(table, c) ==
    (table # None /\ c \in table.cols) =>
        \A i \in 1..Len(table.rows) :
            /\ table.rows[i][c].kind = "num"
            /\ 0 <= table.rows[i][c].num /\ table.rows[i][c].num <= 100

\* C14: every risk_score of nslds_data and merged_data and every
\* predictive_score of merged_data is a number between 0 and 1 inclusive.
C14_ScoresInUnitInterval ==
    /\ ScoresWithin(nslds_data, "risk_score")
    /\ ScoresWithin(merged_data, "risk_score")
    /\ ScoresWithin(merged_data, "predictive_score")

\* The held loan table has a risk_score of 1.0 and the merged table a row whose
\* predictive_score is 1.0 although its own risk_score with the three penalties
\* of the row (0.3 + 0.15 + 0.2) is above 1.
C14_Witness ==
    /\ nslds_data # None /\ merged_data # None
    /\ \E i \in 1..Len(nslds_data.rows) : nslds_data.rows[i]["risk_score"] = Num(100)
    /\ "predictive_score" \in merged_data.cols
    /\ \E k \in 1..Len(merged_data.rows) :
          /\ merged_data.rows[k]["predictive_score"] = Num(100)
          /\ merged_data.rows[k]["gpa"] = Num(190)
          /\ merged_data.rows[k]["enrollment_status"] = Str("Part-time")
          /\ merged_data.rows[k]["academic_standing"] = Str("Academic Warning")
          /\ merged_data.rows[k]["risk_score"].num + 65 > 100

-----------------------------------------------------------------------------
(* Properties of the predictive score, under SpecPredict *)

IsPredictCall == call.op = "calculate_predictive_score"

\* The gpa the record states, in hundredths; -1 when it states none (no key, an
\* empty cell, text that is no numeral).
StatedGpa ==
    LET d == call.student_data IN
    IF "gpa" \notin DOMAIN d THEN -1
    ELSE IF d["gpa"].kind = "num" THEN d["gpa"].num
    ELSE IF d["gpa"].kind = "str" /\ \E n \in 0..MaxNumeral : ToString(n) = d["gpa"].str
    THEN CHOOSE n \in 0..MaxNumeral : ToString(n) = d["gpa"].str
    ELSE -1

GpaPenalty ==
    IF StatedGpa = -1 THEN 0
    ELSE IF StatedGpa < 200 THEN 30
    ELSE IF StatedGpa < 250 THEN 20
    ELSE IF StatedGpa < 300 THEN 10
    ELSE 0

EnrollmentPenalty ==
    LET d == call.student_data IN
    IF "enrollment_status" \notin DOMAIN d THEN 0
    ELSE IF d["enrollment_status"] = Str("Part-time") THEN 15
    ELSE IF d["enrollment_status"] = Str("Leave of Absence") THEN 25
    ELSE 0

StandingPenalty ==
    LET d == call.student_data IN
    IF "academic_standing" \notin DOMAIN d THEN 0
    ELSE IF d["academic_standing"] = Str("Academic Warning") THEN 20
    ELSE IF d["academic_standing"] = Str("Academic Probation") THEN 30
    ELSE 0

\* The base score: the risk score of the record's days_delinquent (0 without
\* the key) at the call's outcome of the random source.
BaseScore ==
    LET d == call.student_data IN
    calculate_risk_score(IF "days_delinquent" \in DOMAIN d THEN d["days_delinquent"]
                                                             ELSE Num(0), call.rnd).val

\* C15: for every record calculate_predictive_score returns
\* min(1, base + gpa_penalty + enrollment_penalty + standing_penalty) with
\* gpa_penalty 0.3 for every gpa < 2.0, 0.2 for 2.0 <= gpa < 2.5, 0.1 for
\* 2.5 <= gpa < 3.0 and 0 otherwise (a missing gpa included), enrollment_penalty
\* 0.15 / 0.25 for Part-time / Leave of Absence and standing_penalty 0.2 / 0.3
\* for Academic Warning / Academic Probation.
C15_PenaltyFormula ==
    (IsPredictCall /\ call.exc = "") =>
        call.ret = IF BaseScore + GpaPenalty + EnrollmentPenalty + StandingPenalty < 100
                   THEN BaseScore + GpaPenalty + EnrollmentPenalty + StandingPenalty
                   ELSE 100

-----------------------------------------------------------------------------
(* Properties of the aggregator, under SpecAggregate *)

IsAnalyzeCall == call.op = "analyze_by_major"

\* The rows of the input whose major is m, and the first of them.
Members(m) == {i \in 1..Len(call.data.rows) : call.data.rows[i]["major"] = Str(m)}
FirstRow(m) == CHOOSE i \in Members(m) : \A j \in Members(m) : i <= j

\* C16: the rows of the aggregate are in descending order of avg_risk, and two
\* groups of equal avg_risk are in the order in which their majors first
\* appear in the input table.
C16_StableDescending ==
    HasAggregate =>
        \A k, l \in 1..Len(call.ret.rows) :
            k < l =>
                /\ call.ret.rows[k].avg_risk >= call.ret.rows[l].avg_risk
                /\ call.ret.rows[k].avg_risk = call.ret.rows[l].avg_risk =>
                       FirstRow(call.ret.rows[k].major) < FirstRow(call.ret.rows[l].major)

\* Whether avg, in hundredths, is the mean of the column over the rows S
\* rounded to two decimals (scale 1 for a column in hundredths, 100 for one in
\* units).
IsRoundedMean(avg, c, S, scale) ==
    LET total == scale * SumOver([i \in 1..Len(call.data.rows) |-> call.data.rows[i][c].num], S)
        diff == Cardinality(S) * avg - total
    IN 2 * diff <= Cardinality(S) /\ -2 * diff <= Cardinality(S)

\* C17: the aggregate has exactly one row per distinct major of the input; the
\* row's student_count is the number of input rows with that major, its
\* total_balance their summed and avg_balance their mean outstanding_balance,
\* avg_risk and avg_delinquent_days the means of their risk_score and
\* days_delinquent, each mean rounded to two decimals; the student_count values
\* add up to the number of input rows that have a major.
C17_GroupStatistics ==
    HasAggregate =>
        LET out == call.ret.rows
            majors == {call.data.rows[i]["major"].str :
                          i \in {j \in 1..Len(call.data.rows) :
                                    call.data.rows[j]["major"].kind = "str"}}
        IN /\ {out[k].major : k \in 1..Len(out)} = majors
           /\ Len(out) = Cardinality(majors)
           /\ \A k \in 1..Len(out) :
                 LET S == Members(out[k].major) IN
                 /\ out[k].student_count = Cardinality(S)
                 /\ out[k].total_balance =
                        100 * SumOver([i \in 1..Len(call.data.rows) |->
                                          call.data.rows[i]["outstanding_balance"].num], S)
                 /\ IsRoundedMean(out[k].avg_balance, "outstanding_balance", S, 100)
                 /\ IsRoundedMean(out[k].avg_risk, "risk_score", S, 1)
                 /\ IsRoundedMean(out[k].avg_delinquent_days, "days_delinquent", S, 100)
           /\ SumOver([k \in 1..Len(out) |-> out[k].student_count], 1..Len(out))
                  = Cardinality({i \in 1..Len(call.data.rows) :
                                    call.data.rows[i]["major"].kind = "str"})

\* Three input rows: one group of two rows with different balances, and a row
\* without a major.
C17_Witness ==
    /\ HasAggregate
    /\ Len(call.data.rows) = 3
    /\ Len(call.ret.rows) = 1
    /\ call.ret.rows[1].student_count = 2
    /\ call.ret.rows[1].total_balance = 100100
    /\ call.ret.rows[1].avg_balance = 50050
    /\ \E i \in 1..3 : isna(call.data.rows[i]["major"])

\* C18: analyze_by_major returns None when it is given no table or a table
\* with neither a major nor a program column, and a summary table when the
\* table has a major or a program column.
C18_GracefulAggregation ==
    IsAnalyzeCall =>
        IF call.data # None /\ (call.data.cols \cap {"major", "program"}) # {}
        THEN call.ret # None
        ELSE call.ret = None

-----------------------------------------------------------------------------
(* Properties of a repeated ingestion, under SpecRepeat *)

IsRepeatCall == call.op = "process_nslds_file twice"

\* Whether the score s lies in the range the source draws from for the
\* days_delinquent cell d.
InBucketRange(d, s) ==
    IF isna(d) \/ d.num < 30 THEN 0 <= s /\ s < 30
    ELSE IF d.num < 90 THEN 30 <= s /\ s < 60
    ELSE IF d.num < 180 THEN 60 <= s /\ s <= 80
    ELSE 80 <= s /\ s <= 100

\* C19: two runs of process_nslds_file on one file, under any two outcomes of
\* the random source, end alike (both return a table or both the same error),
\* and two returned tables have the same columns, the same number of rows and
\* the same value in every column but risk_score and risk_tier, the two
\* risk_score values of a row lying in the range of the row's days_delinquent.
C19_SameButScores ==
    IsRepeatCall =>
        /\ call.first.error = call.second.error
        /\ call.first.error = None =>
              LET a == call.first.df
                  b == call.second.df
              IN /\ a.cols = b.cols
                 /\ Len(a.rows) = Len(b.rows)
                 /\ \A i \in 1..Len(a.rows) :
                       /\ \A c \in a.cols \ {"risk_score", "risk_tier"} :
                             a.rows[i][c] = b.rows[i][c]
                       /\ InBucketRange(a.rows[i]["days_delinquent"], a.rows[i]["risk_score"].num)
                       /\ InBucketRange(b.rows[i]["days_delinquent"], b.rows[i]["risk_score"].num)

\* Two runs on a two-row file without identifiers gave different scores, and
\* different tiers, to the same row.
C19_Witness ==
    /\ IsRepeatCall
    /\ call.first.error = None /\ call.second.error = None
    /\ Len(call.first.df.rows) = 2
    /\ "student_id" \notin call.file.cols
    /\ call.first.df.rows[2]["risk_score"] # call.second.df.rows[2]["risk_score"]
    /\ call.first.df.rows[2]["risk_tier"] # call.second.df.rows[2]["risk_tier"]

-----------------------------------------------------------------------------
(* Properties of a session, under Spec: the merged table and its sources *)

\* C20: whenever merged_data is held, nslds_data and sis_data are held and
\* merged_data is the join of the two tables held now (with the predictive
\* columns of some outcome of the random source).
C20_MergedIsCurrentJoin ==
    merged_data # None =>
        /\ nslds_data # None /\ sis_data # None
        /\ \E rnd \in RandomDraws(merge_draws(nslds_data, sis_data)) :
              merge_data(nslds_data, sis_data, rnd).merged = merged_data

-----------------------------------------------------------------------------
(* Properties of one merge, under SpecMerge: the predictive score and the row's score *)

\* C21: in every merged row that has a predictive_score, predictive_score is
\* at least the row's risk_score, and predictive_tier is not below the row's
\* risk_tier in the order LOW < MEDIUM < HIGH.
C21_PredictiveAtLeastRisk ==
    (merged_data # None /\ "predictive_score" \in merged_data.cols) =>
        \A i \in 1..Len(merged_data.rows) :
            /\ merged_data.rows[i]["predictive_score"].num >= merged_data.rows[i]["risk_score"].num
            /\ TierRank(merged_data.rows[i]["predictive_tier"].str)
                   >= TierRank(merged_data.rows[i]["risk_tier"].str)

-----------------------------------------------------------------------------
(* Properties of the Dashboard tab, under SpecDashboard *)

IsDashboardCall == call.op = "dashboard"

\* The CDR half of C22: (0, 0, 0) for a table without rows, and otherwise
\* 0 <= improved_cdr <= current_cdr <= 100 with the reduction their difference.
CdrProjectionDefined ==
    IsDashboardCall =>
        /\ call.cdr_exc = ""
        /\ Len(call.data.rows) = 0 => call.cdr = <<0, 0, 0>>
        /\ Len(call.data.rows) > 0 =>
               /\ 0 <= call.cdr[2] /\ call.cdr[2] <= call.cdr[1] /\ call.cdr[1] <= 10000
               /\ call.cdr[3] = call.cdr[1] - call.cdr[2]

\* C22: for every merged table stored in merged_data, one with no rows and one
\* with no HIGH row included, the CDR projection is defined as above and the
\* ROI ratio net_savings / intervention_investment is never evaluated with a
\* zero denominator.
C22_ImpactDefined ==
    /\ CdrProjectionDefined
    /\ IsDashboardCall => ~(call.roi_evaluated /\ call.intervention_investment = 0)

\* Dashboards the claim is about: a table without rows, and tables of several
\* rows with and without a HIGH row.
DashboardOfEmptyTable == IsDashboardCall /\ Len(call.data.rows) = 0 /\ call.roi_evaluated

DashboardWithHighRow ==
    /\ IsDashboardCall /\ call.exc = ""
    /\ Len(call.data.rows) = 2
    /\ call.cdr[2] < call.cdr[1] /\ call.cdr[1] < 6500
    /\ call.roi = 1850

DashboardWithoutHighRow ==
    /\ IsDashboardCall /\ Len(call.data.rows) >= 2
    /\ call.roi_evaluated /\ call.intervention_investment = 0

====
